---- MODULE Spec2Model ----
(***************************************************************************)
(* Model of the auto-messenger service: the scheduler lifecycle            *)
(* (service.Start / service.Stop), the scheduler goroutine with its        *)
(* ticker, the claim transaction (repo.FetchAndLockMessages), the fan-out  *)
(* of processBatch and the per-message attempt loop of sendMessage.        *)
(***************************************************************************)
EXTENDS Integers, FiniteSets, Sequences, TLC

(* ---------------------------- bounds ----------------------------------- *)
\* msg_batch_size handed to FetchAndLockMessages as the limit
BatchSize == 2
\* scheduler goroutines the model lets Start spawn
MaxLoops == 2
\* largest msg_max_retry the model configures the retrier with
MaxAttempts == 3

\* rows of the messages table: one more than a batch takes
NumMsgs == BatchSize + 1
Msgs == 1..NumMsgs
Loops == 1..MaxLoops

(* ------------------------ program constants ---------------------------- *)
StatusPending == "Pending"
StatusProcessing == "Processing"
StatusSuccess == "Success"
StatusFailed == "Failed"
Statuses == {StatusPending, StatusProcessing, StatusSuccess, StatusFailed}

\* err != nil from doMsgRequest: no response was obtained
TransportErr == 0
StatusOK == 200
StatusAccepted == 202
StatusBadRequest == 400
StatusInternalServerError == 500
\* the outcomes of one call of doMsgRequest
Responses == {TransportErr, StatusOK, StatusAccepted, StatusBadRequest,
              StatusInternalServerError}
\* the body of a response: a JSON object with a messageId, one without,
\* or bytes json.Decoder rejects
Bodies == {"id", "noid", "bad"}

NoUpdate == "none"

VARIABLES
    status,        \* messages.status of every row, as committed
    rowLock,       \* the loop whose open transaction holds the row lock, or 0
    cache,         \* number of records stored under sent_msg:<id of m>
    isRunning,     \* service.isRunning
    mtx,           \* service.mtx: "free", or "Stop" while Stop blocks on its send
    pc,            \* position of every scheduler goroutine
    tickPending,   \* a tick waits in the ticker's channel t.C (capacity 1)
    ctxCancelled,  \* processCtxCancel of the goroutine has been called
    batch,         \* msgs of the goroutine's current (or last) processBatch
    task,          \* the sendMessage goroutine of loop l for message m
    maxAttempts,   \* msg_max_retry, handed to retry.WithMaxAttemps
    stopped        \* history: the last lifecycle call to return was Stop

vars == <<status, rowLock, cache, isRunning, mtx, pc, tickPending,
          ctxCancelled, batch, task, maxAttempts, stopped>>

storeVars == <<status, rowLock, cache>>
lifeVars == <<isRunning, mtx, stopped, maxAttempts>>

\* a sendMessage goroutine: its position, the responses its attempts got, the
\* body of the last one, the value received from the retrier's channel, and
\* three records of what it did: the terminal status updates it issued,
\* whether a store or cache call of it failed, and whether a store call did
NoTask == [pc |-> "none", resps |-> <<>>, body |-> "noid",
           retrySuccess |-> FALSE, updates |-> 0, fault |-> FALSE,
           storeFault |-> FALSE]
NewTask == [NoTask EXCEPT !.pc = "attempt"]

Alive == {"init", "select", "tx", "dispatch"}

Min(a, b) == IF a < b THEN a ELSE b

(* --------------------------- repository -------------------------------- *)
\* the selection without the row locks (no FOR UPDATE SKIP LOCKED)
EligibleIgnoringLocks == {m \in Msgs : status[m] = StatusPending}

\* the selection as the comment of FetchAndLockMessages words it: pending
\* or failed rows
EligibleWithFailed ==
    {m \in Msgs : status[m] \in {StatusPending, StatusFailed} /\ rowLock[m] = 0}

\* Where("status = ?", StatusPending) under FOR UPDATE SKIP LOCKED
Eligible == {m \in Msgs : status[m] = StatusPending /\ rowLock[m] = 0}

\* Find without the Limit clause: every eligible row
SelectForUpdateNoLimit(limit) == {Eligible}

\* the results Find may return under Limit(limit): no ORDER BY, so any
\* `limit` of the eligible rows (all of them when there are fewer)
SelectForUpdate(limit) ==
    {S \in SUBSET Eligible : Cardinality(S) = Min(limit, Cardinality(Eligible))}

\* the transaction keeping its UPDATE when it fails (no rollback)
CommitStatusNoRollback(st, S, txOk) ==
    [m \in Msgs |-> IF m \in S THEN StatusProcessing ELSE st[m]]

\* db.Transaction around the UPDATE of the selected rows: committed when
\* the function returns nil, rolled back when it returns an error
CommitStatus(st, S, txOk) ==
    IF txOk THEN [m \in Msgs |-> IF m \in S THEN StatusProcessing ELSE st[m]]
    ELSE st

\* repo.UpdateStatus: db.Save of the row; ok = the store accepted the write
UpdateStatus(st, m, s, ok) == IF ok THEN [st EXCEPT ![m] = s] ELSE st

(* --------------------------- sendMessage ------------------------------- *)
\* retryFunc without the update to Success on 202
RetryFuncUpdateNoSuccess(code) ==
    IF code = TransportErr THEN NoUpdate
    ELSE IF code >= StatusInternalServerError THEN NoUpdate
    ELSE IF code >= StatusBadRequest THEN StatusFailed
    ELSE NoUpdate

\* the status retryFunc writes for a response, or NoUpdate
RetryFuncUpdate(code) ==
    IF code = TransportErr THEN NoUpdate
    ELSE IF code = StatusAccepted THEN StatusSuccess
    ELSE IF code >= StatusInternalServerError THEN NoUpdate
    ELSE IF code >= StatusBadRequest THEN StatusFailed
    ELSE NoUpdate

\* retryFunc retrying on every error status, 4xx included
RetryFuncTerminateRetry4xx(code) ==
    IF code = TransportErr THEN FALSE
    ELSE IF code = StatusAccepted THEN TRUE
    ELSE IF code >= StatusBadRequest THEN FALSE
    ELSE TRUE

\* the value retryFunc returns (terminate)
RetryFuncTerminate(code) ==
    IF code = TransportErr THEN FALSE
    ELSE IF code = StatusAccepted THEN TRUE
    ELSE IF code >= StatusInternalServerError THEN FALSE
    ELSE TRUE

\* saveResponse: CacheMessage is called when the body decodes and carries a
\* non-empty messageId
SaveResponseCachesAlways(body) == TRUE

SaveResponseCaches(body) == body = "id"

\* the retrier: after an attempt that did not terminate, another attempt
\* follows while fewer than the configured maximum have been made
RetryContinues(terminate, attempts) == ~terminate /\ attempts < maxAttempts

\* the fallback taken whatever the retrier reported
NeedsFallbackAlways(retrySuccess) == TRUE

\* the fallback never taken
NeedsFallbackNever(retrySuccess) == FALSE

\* if !retrySuccess { UpdateStatus(msg, StatusFailed) }
NeedsFallback(retrySuccess) == ~retrySuccess

\* where sendMessage goes on the value received from the retrier's channel
AfterRetry(retrySuccess) ==
    IF NeedsFallback(retrySuccess) THEN "conclude" ELSE "finished"

(* ------------------------------ Init ----------------------------------- *)
\* The service as NewMessageSenderService returns it, over a table of
\* Pending rows and an empty cache. The retrier is given a budget of one
\* attempt here; SpecSend below runs the attempt loop under every budget up
\* to MaxAttempts.
Init ==
    /\ status = [m \in Msgs |-> StatusPending]
    /\ rowLock = [m \in Msgs |-> 0]
    /\ cache = [m \in Msgs |-> 0]
    /\ isRunning = FALSE
    /\ mtx = "free"
    /\ pc = [l \in Loops |-> "none"]
    /\ tickPending = [l \in Loops |-> FALSE]
    /\ ctxCancelled = [l \in Loops |-> FALSE]
    /\ batch = [l \in Loops |-> {}]
    /\ task = [l \in Loops |-> [m \in Msgs |-> NoTask]]
    /\ maxAttempts = 1
    /\ stopped = FALSE

(* ---------------------------- lifecycle -------------------------------- *)
\* service.Start: under the mutex; returns at once when isRunning, else
\* creates a ticker and spawns the scheduler goroutine. isRunning is not
\* assigned.
Start ==
    /\ mtx = "free"
    /\ IF isRunning
       THEN UNCHANGED <<pc>>
       ELSE \E l \in Loops :
              /\ pc[l] = "none"
              /\ \A k \in Loops : k < l => pc[k] # "none"
              /\ pc' = [pc EXCEPT ![l] = "init"]
    /\ stopped' = FALSE
    /\ UNCHANGED <<storeVars, isRunning, mtx, tickPending, ctxCancelled,
                   batch, task, maxAttempts>>

\* Stop without the isRunning check: it sends on stopChan in every state
StopAlwaysSends ==
    /\ mtx = "free"
    /\ mtx' = "Stop"
    /\ UNCHANGED <<storeVars, isRunning, pc, tickPending, ctxCancelled,
                   batch, task, maxAttempts, stopped>>

\* service.Stop: under the mutex; returns at once when !isRunning, else
\* blocks on the send to the unbuffered stopChan, the mutex still held
Stop ==
    /\ mtx = "free"
    /\ IF ~isRunning
       THEN /\ stopped' = TRUE
            /\ UNCHANGED mtx
       ELSE /\ mtx' = "Stop"
            /\ UNCHANGED stopped
    /\ UNCHANGED <<storeVars, isRunning, pc, tickPending, ctxCancelled,
                   batch, task, maxAttempts>>

\* the runtime delivers a tick into t.C; a tick is dropped when one waits
Tick(l) ==
    /\ pc[l] \in Alive
    /\ ~tickPending[l]
    /\ tickPending' = [tickPending EXCEPT ![l] = TRUE]
    /\ UNCHANGED <<storeVars, lifeVars, pc, ctxCancelled, batch, task>>

(* --------------------------- processBatch ------------------------------ *)
\* processBatch up to the SELECT ... FOR UPDATE SKIP LOCKED of
\* FetchAndLockMessages: the transaction locks the rows it selected, or
\* fails (txOk = FALSE) and processBatch returns on err
BeginCycle(l) ==
    \E txOk \in BOOLEAN :
      IF txOk
      THEN \E S \in SelectForUpdate(BatchSize) :
             /\ rowLock' = [m \in Msgs |-> IF m \in S THEN l ELSE rowLock[m]]
             /\ batch' = [batch EXCEPT ![l] = S]
             /\ pc' = [pc EXCEPT ![l] = "tx"]
      ELSE /\ batch' = [batch EXCEPT ![l] = {}]
           /\ pc' = [pc EXCEPT ![l] = "select"]
           /\ UNCHANGED rowLock

\* the goroutine without its initial run: the first processBatch waits for
\* the first tick
LoopInitWaitsForTick(l) ==
    /\ pc[l] = "init"
    /\ tickPending[l]
    /\ tickPending' = [tickPending EXCEPT ![l] = FALSE]
    /\ BeginCycle(l)
    /\ UNCHANGED <<status, cache, lifeVars, ctxCancelled, task>>

\* the goroutine's initial run of processBatch
LoopInit(l) ==
    /\ pc[l] = "init"
    /\ BeginCycle(l)
    /\ UNCHANGED <<status, cache, lifeVars, tickPending, ctxCancelled, task>>

\* the channels of the select that are ready
Ready(l) ==
    (IF tickPending[l] THEN {"tick"} ELSE {}) \cup
    (IF mtx = "Stop" THEN {"stop"} ELSE {})

\* one pass of the select: a tick runs processBatch; a receive from stopChan
\* stops the ticker, cancels processCtx and ends the goroutine, and lets
\* Stop finish (isRunning = false, unlock)
LoopSelect(l) ==
    /\ pc[l] = "select"
    /\ \E ch \in Ready(l) :
         IF ch = "stop"
         THEN /\ pc' = [pc EXCEPT ![l] = "exited"]
              /\ ctxCancelled' = [ctxCancelled EXCEPT ![l] = TRUE]
              /\ tickPending' = [tickPending EXCEPT ![l] = FALSE]
              /\ isRunning' = FALSE
              /\ mtx' = "free"
              /\ stopped' = TRUE
              /\ UNCHANGED <<storeVars, batch, task, maxAttempts>>
         ELSE /\ tickPending' = [tickPending EXCEPT ![l] = FALSE]
              /\ BeginCycle(l)
              /\ UNCHANGED <<status, cache, lifeVars, ctxCancelled, task>>

\* the UPDATE ... WHERE id IN ids and the commit of FetchAndLockMessages,
\* then processBatch: return on an empty batch, else one sendMessage
\* goroutine per message. A failed transaction (txOk = FALSE) rolls back.
FetchCommit(l) ==
    /\ pc[l] = "tx"
    /\ rowLock' = [m \in Msgs |-> IF rowLock[m] = l THEN 0 ELSE rowLock[m]]
    /\ \E txOk \in BOOLEAN :
         IF txOk
         THEN /\ status' = CommitStatus(status, batch[l], TRUE)
              /\ task' = [task EXCEPT ![l] = [m \in Msgs |->
                   IF m \in batch[l] THEN NewTask ELSE NoTask]]
              /\ pc' = [pc EXCEPT ![l] =
                   IF batch[l] = {} THEN "select" ELSE "dispatch"]
              /\ UNCHANGED batch
         ELSE /\ status' = CommitStatus(status, batch[l], FALSE)
              /\ batch' = [batch EXCEPT ![l] = {}]
              /\ pc' = [pc EXCEPT ![l] = "select"]
              /\ UNCHANGED task
    /\ UNCHANGED <<cache, lifeVars, tickPending, ctxCancelled>>

(* --------------------------- sendMessage ------------------------------- *)
\* one call of retryFunc by the retrier: doMsgRequest, the classification
\* of the response, the status update and saveResponse; then the retrier
\* either schedules the next attempt or sends its result. An attempt is not
\* issued once ctx is cancelled: the retrier sends false.
Attempt(l, m) ==
    /\ pc[l] = "dispatch"
    /\ m \in batch[l]
    /\ task[l][m].pc = "attempt"
    /\ IF ctxCancelled[l]
       THEN /\ task' = [task EXCEPT ![l][m].pc = AfterRetry(FALSE),
                                    ![l][m].retrySuccess = FALSE]
            /\ UNCHANGED <<status, cache>>
       ELSE \E code \in Responses, storeOk \in BOOLEAN, cacheOk \in BOOLEAN :
            \E body \in IF code = StatusAccepted THEN Bodies ELSE {"noid"} :
              LET upd == RetryFuncUpdate(code)
                  caches == code = StatusAccepted /\ SaveResponseCaches(body)
                  terminate == RetryFuncTerminate(code)
                  resps == Append(task[l][m].resps, code)
                  failed == \/ upd # NoUpdate /\ ~storeOk
                            \/ caches /\ ~cacheOk
              IN /\ status' = IF upd = NoUpdate THEN status
                               ELSE UpdateStatus(status, m, upd, storeOk)
                 /\ cache' = IF caches /\ cacheOk
                              THEN [cache EXCEPT ![m] = @ + 1] ELSE cache
                 /\ task' = [task EXCEPT ![l][m] =
                      [pc |-> IF RetryContinues(terminate, Len(resps))
                              THEN "attempt" ELSE AfterRetry(terminate),
                       resps |-> resps,
                       body |-> body,
                       retrySuccess |-> terminate,
                       updates |-> IF upd = NoUpdate THEN @.updates
                                   ELSE @.updates + 1,
                       fault |-> @.fault \/ failed,
                       storeFault |-> @.storeFault
                                        \/ (upd # NoUpdate /\ ~storeOk)]]
    /\ UNCHANGED <<rowLock, lifeVars, pc, tickPending, ctxCancelled, batch>>

\* sendMessage after the retrier's channel delivered retrySuccess: the
\* fallback update to Failed when retrying failed
Conclude(l, m) ==
    /\ pc[l] = "dispatch"
    /\ m \in batch[l]
    /\ task[l][m].pc = "conclude"
    /\ \E storeOk \in BOOLEAN :
         /\ status' = UpdateStatus(status, m, StatusFailed, storeOk)
         /\ task' = [task EXCEPT ![l][m].pc = "finished",
                                 ![l][m].updates = @ + 1,
                                 ![l][m].fault = @ \/ ~storeOk,
                                 ![l][m].storeFault = @ \/ ~storeOk]
    /\ UNCHANGED <<rowLock, cache, lifeVars, pc, tickPending, ctxCancelled,
                   batch>>

\* wg.Wait() of processBatch returns: every sendMessage goroutine ended;
\* processBatch returns and its msgs and goroutines are gone
Join(l) ==
    /\ pc[l] = "dispatch"
    /\ \A m \in batch[l] : task[l][m].pc = "finished"
    /\ pc' = [pc EXCEPT ![l] = "select"]
    /\ batch' = [batch EXCEPT ![l] = {}]
    /\ task' = [task EXCEPT ![l] = [m \in Msgs |-> NoTask]]
    /\ UNCHANGED <<storeVars, lifeVars, tickPending, ctxCancelled>>

(* ------------------------------ Spec ----------------------------------- *)
Next ==
    \/ Start
    \/ Stop
    \/ \E l \in Loops : Tick(l)
    \/ \E l \in Loops : LoopInit(l)
    \/ \E l \in Loops : LoopSelect(l)
    \/ \E l \in Loops : FetchCommit(l)
    \/ \E l \in Loops, m \in Msgs : Attempt(l, m)
    \/ \E l \in Loops, m \in Msgs : Conclude(l, m)
    \/ \E l \in Loops : Join(l)

Spec == Init /\ [][Next]_vars

\* The steps of the scheduler goroutines and of their sendMessage
\* goroutines: the Go scheduler runs a goroutine that can take a step.
\* Start and Stop calls and ticks are not required to happen.
LoopStep ==
    \/ \E l \in Loops : LoopInit(l)
    \/ \E l \in Loops : LoopSelect(l)
    \/ \E l \in Loops : FetchCommit(l)
    \/ \E l \in Loops, m \in Msgs : Attempt(l, m)
    \/ \E l \in Loops, m \in Msgs : Conclude(l, m)
    \/ \E l \in Loops : Join(l)

SpecLive == Init /\ [][Next]_vars /\ WF_vars(LoopStep)

(* ----------------- the attempt loop of one message --------------------- *)
\* The state in which loop 1 dispatches a batch of the single message m0
\* (reached under Spec: the other rows were locked by loop 2's claim when
\* loop 1 selected, and loop 2's transaction then rolled back). The retrier is configured with
\* any budget up to MaxAttempts.
SendInit ==
    \E m0 \in Msgs, n \in 1..MaxAttempts :
      /\ status = [m \in Msgs |-> IF m = m0 THEN StatusProcessing
                                             ELSE StatusPending]
      /\ rowLock = [m \in Msgs |-> 0]
      /\ cache = [m \in Msgs |-> 0]
      /\ isRunning = FALSE
      /\ mtx = "free"
      /\ pc = [l \in Loops |-> IF l = 1 THEN "dispatch"
                                ELSE IF l = 2 THEN "select" ELSE "none"]
      /\ tickPending = [l \in Loops |-> FALSE]
      /\ ctxCancelled = [l \in Loops |-> FALSE]
      /\ batch = [l \in Loops |-> IF l = 1 THEN {m0} ELSE {}]
      /\ task = [l \in Loops |-> [m \in Msgs |->
                   IF l = 1 /\ m = m0 THEN NewTask ELSE NoTask]]
      /\ maxAttempts = n
      /\ stopped = FALSE

NextSend ==
    \/ \E l \in Loops, m \in Msgs : Attempt(l, m)
    \/ \E l \in Loops, m \in Msgs : Conclude(l, m)
    \/ \E l \in Loops : Join(l)

SpecSend == SendInit /\ [][NextSend]_vars

(* ------------------- the tasks of one full batch ---------------------- *)
\* The state in which loop 1 dispatches a batch of BatchSize messages it
\* claimed (reached under Spec by Start, the loop's first claim and its
\* commit), with any retry budget up to MaxAttempts.
BatchInit ==
    \E B \in SUBSET Msgs, n \in 1..MaxAttempts :
      /\ Cardinality(B) = BatchSize
      /\ status = [m \in Msgs |-> IF m \in B THEN StatusProcessing
                                             ELSE StatusPending]
      /\ rowLock = [m \in Msgs |-> 0]
      /\ cache = [m \in Msgs |-> 0]
      /\ isRunning = FALSE
      /\ mtx = "free"
      /\ pc = [l \in Loops |-> IF l = 1 THEN "dispatch" ELSE "none"]
      /\ tickPending = [l \in Loops |-> FALSE]
      /\ ctxCancelled = [l \in Loops |-> FALSE]
      /\ batch = [l \in Loops |-> IF l = 1 THEN B ELSE {}]
      /\ task = [l \in Loops |-> [m \in Msgs |->
                   IF l = 1 /\ m \in B THEN NewTask ELSE NoTask]]
      /\ maxAttempts = n
      /\ stopped = FALSE

\* the sendMessage goroutines and the wg.Wait() of processBatch are
\* scheduled: a step that stays possible is eventually taken
SpecBatch == BatchInit /\ [][NextSend]_vars /\ WF_vars(NextSend)

\* the tasks that exist
Tasks == {lm \in Loops \X Msgs : task[lm[1]][lm[2]].pc # "none"}
TaskOf(lm) == task[lm[1]][lm[2]]
Retryable(code) == code = TransportErr \/ code >= StatusInternalServerError
ClientError(code) == code >= StatusBadRequest /\ code < StatusInternalServerError
Terminal(s) == s \in {StatusSuccess, StatusFailed}

(* ============================== claims ================================= *)
InClaim(l) == pc[l] = "tx"
InCycle(l) == pc[l] \in {"tx", "dispatch"}
LiveLoops == {l \in Loops : pc[l] \in Alive}
\* loop l takes a step that starts a processBatch
CycleStarts(l) == pc[l] \in {"init", "select"} /\ pc'[l] = "tx"

\* C1: whatever claim operations run concurrently (here: those of the
\* scheduler goroutines, each in its own transaction), no message is in the
\* batch of two of them, neither while the transactions are open nor while
\* the returned batches are being processed.
C1_DisjointBatches ==
    \A l1 \in Loops, l2 \in Loops :
        l1 # l2 => batch[l1] \cap batch[l2] = {}

\* two claim transactions are open at once, each holding rows
C1_Witness ==
    \E l1 \in Loops, l2 \in Loops :
        /\ l1 # l2
        /\ InClaim(l1) /\ InClaim(l2)
        /\ batch[l1] # {} /\ batch[l2] # {}

\* C2: in every step, a message whose stored status changes goes from
\* Pending to Processing, or from Processing to Success or to Failed; a
\* message that is Success or Failed keeps its status for ever.
LegalTransition(a, b) ==
    \/ a = StatusPending /\ b = StatusProcessing
    \/ a = StatusProcessing /\ b \in {StatusSuccess, StatusFailed}

C3_ExactlyOneTerminalUpdate ==
    \A lm \in Tasks :
        TaskOf(lm).pc = "finished" => TaskOf(lm).updates = 1

\* C4 (as claimed): at most one scheduler goroutine is alive, whatever
\* Start and Stop calls were made.
C4_AtMostOneLoop == Cardinality(LiveLoops) <= 1

\* C5 (as claimed): once Stop has returned and until Start is called again,
\* no scheduler goroutine starts a processBatch.
C5_NoCycleAfterStop ==
    [][stopped => \A l \in Loops : ~CycleStarts(l)]_vars

\* C6 (as claimed): at most one processBatch of the service is executing.
C6_AtMostOneCycle == Cardinality({l \in Loops : InCycle(l)}) <= 1

\* C7: with a budget of at least three attempts, a message whose attempts
\* got 500 and 500 is attempted again; a message whose attempts got 500, 500,
\* 202 is attempted no more and gets no fallback update; when the 202 body
\* carried a message id and no store or cache call of the message failed, its
\* status is Success and exactly one idempotency record was written.
C7_RetryThenSuccess ==
    \A lm \in Tasks :
      LET t == TaskOf(lm)
          m == lm[2]
          e == StatusInternalServerError
      IN /\ (maxAttempts >= 3 /\ t.resps \in {<<e>>, <<e, e>>})
               => t.pc = "attempt"
         /\ t.resps = <<e, e, StatusAccepted>>
               => /\ t.pc = "finished"
                  /\ t.updates = 1
                  /\ cache[m] <= 1
                  /\ (t.body = "id" /\ ~t.fault)
                        => status[m] = StatusSuccess /\ cache[m] = 1

C7_Witness ==
    \E lm \in Tasks :
        /\ TaskOf(lm).resps = <<StatusInternalServerError,
                                StatusInternalServerError, StatusAccepted>>
        /\ TaskOf(lm).pc = "finished"
        /\ TaskOf(lm).body = "id"
        /\ ~TaskOf(lm).fault
        /\ status[lm[2]] = StatusSuccess
        /\ cache[lm[2]] = 1

\* C8: a 4xx response is the last response of its message: the attempt
\* that got it issued the update to Failed, no attempt and no fallback
\* follows, and the status is Failed unless that store write failed. A 400
\* on the first attempt thus ends the message Failed after one attempt.
C8_ClientErrorFailsAtOnce ==
    \A lm \in Tasks :
      LET t == TaskOf(lm)
      IN \A i \in 1..Len(t.resps) :
           ClientError(t.resps[i])
             => /\ i = Len(t.resps)
                /\ t.pc = "finished"
                /\ t.updates = 1
                /\ ~t.fault => status[lm[2]] = StatusFailed

C8_Witness ==
    \E lm \in Tasks :
        /\ maxAttempts > 1
        /\ TaskOf(lm).resps = <<StatusBadRequest>>
        /\ TaskOf(lm).pc = "finished"
        /\ status[lm[2]] = StatusFailed

\* C9: a sendMessage that returned after attempts that all got a status
\* >= 500 or a transport failure made exactly the configured maximum of
\* attempts, wrote no idempotency record, and left the message Failed
\* (unless the store write of the fallback failed).
C9_ExhaustionFails ==
    \A lm \in Tasks :
      LET t == TaskOf(lm)
      IN (/\ t.pc = "finished"
          /\ \A i \in 1..Len(t.resps) : Retryable(t.resps[i]))
           => /\ Len(t.resps) = maxAttempts
              /\ cache[lm[2]] = 0
              /\ t.updates = 1
              /\ ~t.fault => status[lm[2]] = StatusFailed

C9_Witness ==
    \E lm \in Tasks :
        /\ maxAttempts = MaxAttempts
        /\ TaskOf(lm).pc = "finished"
        /\ Len(TaskOf(lm).resps) = MaxAttempts
        /\ \A i \in 1..Len(TaskOf(lm).resps) : Retryable(TaskOf(lm).resps[i])
        /\ \E i \in 1..Len(TaskOf(lm).resps) :
               TaskOf(lm).resps[i] = TransportErr
        /\ status[lm[2]] = StatusFailed
        /\ cache[lm[2]] = 0

\* C10 (as claimed): when wg.Wait of processBatch returns, the sendMessage
\* of every message of the batch has returned, and every message of the
\* batch whose store writes all succeeded has status Success or Failed.
C10_JoinAfterAllResolved ==
    [][\A l \in Loops :
         (pc[l] = "dispatch" /\ pc'[l] = "select")
           => \A m \in batch[l] :
                /\ task[l][m].pc = "finished"
                /\ ~task[l][m].fault => Terminal(status[m])]_vars

\* loop l takes the step in which its FetchAndLockMessages fails: at the
\* SELECT (from the initial run or from a tick), or at the UPDATE/commit of
\* a transaction that had selected rows
ClaimFails(l) ==
    \/ pc[l] = "init" /\ pc'[l] = "select"
    \/ pc[l] = "select" /\ pc'[l] = "select"
         /\ tickPending[l] /\ ~tickPending'[l]
    \/ pc[l] = "tx" /\ batch[l] # {} /\ pc'[l] = "select"

\* C11: the step in which a loop's claim transaction fails changes no
\* row's status, releases the rows the transaction had locked, writes no
\* cache record and starts no sendMessage; the loop is back at its select,
\* where the next tick starts a new claim.
C11_FailedClaimIsNoOp ==
    [][\A l \in Loops :
         ClaimFails(l)
           => /\ status' = status
              /\ cache' = cache
              /\ batch'[l] = {}
              /\ \A m \in Msgs : rowLock'[m] # l /\ task'[l][m] = NoTask
              /\ \A k \in Loops : task'[k] = task[k]]_vars

\* a lone loop is back at its select with every row still Pending and
\* unlocked: its claim failed (a claim that succeeds takes rows)
C11_Witness ==
    \E l \in Loops :
        /\ pc[l] = "select"
        /\ \A k \in Loops : k # l => pc[k] = "none"
        /\ \A m \in Msgs : status[m] = StatusPending /\ rowLock[m] = 0

\* a call of Stop takes its step: it returns (stopped becomes TRUE) or
\* blocks on its send (mtx becomes "Stop")
StopCalled ==
    mtx = "free" /\ ((~stopped /\ stopped') \/ mtx' = "Stop")

\* C12: a call of Stop made while the scheduler is stopped (isRunning is
\* false, as it is before any Start) returns without sending on stopChan
\* and without blocking: the mutex is free again, and isRunning, the
\* goroutines, their tickers and contexts, the store and the cache are as
\* they were.
C12_StopWhenStoppedIsNoOp ==
    [][(StopCalled /\ ~isRunning)
         => /\ mtx' = "free"
            /\ isRunning' = isRunning
            /\ pc' = pc
            /\ tickPending' = tickPending
            /\ ctxCancelled' = ctxCancelled
            /\ <<storeVars, batch, task>>' = <<storeVars, batch, task>>]_vars

\* Stop has returned before any Start was made
C12_Witness ==
    /\ stopped
    /\ ~isRunning
    /\ mtx = "free"
    /\ \A l \in Loops : pc[l] = "none"

\* C13: a scheduler goroutine is created at its initial run; the step it
\* takes from there is its first processBatch, which consumes no tick, and
\* a tick is only ever consumed by a goroutine waiting at its select, that
\* is after that first processBatch.
C13_ImmediateFirstCycle ==
    [][\A l \in Loops :
         /\ (pc[l] = "none" /\ pc'[l] # "none") => pc'[l] = "init"
         /\ (pc[l] = "init" /\ pc'[l] # "init")
               => /\ pc'[l] \in {"tx", "select"}
                  /\ tickPending'[l] = tickPending[l]
         /\ (tickPending[l] /\ ~tickPending'[l]) => pc[l] = "select"]_vars

\* the first processBatch of a goroutine holds its claim while the first
\* tick is still waiting in the ticker's channel
C13_Witness ==
    \E l \in Loops :
        /\ pc[l] = "tx"
        /\ batch[l] # {}
        /\ tickPending[l]
        /\ \A m \in Msgs : status[m] = StatusPending
        /\ \A k \in Loops : k # l => pc[k] = "none"

\* C14: a claim with limit BatchSize selects at most BatchSize rows, each
\* Pending when selected (and locked by the transaction until it ends); its
\* commit sets exactly the selected rows to Processing and changes no other
\* row; with no eligible row the batch is empty and no row changes.
C14_SelectedRows ==
    \A l \in Loops :
        pc[l] \in {"tx", "dispatch"}
          => /\ Cardinality(batch[l]) <= BatchSize
             /\ pc[l] = "tx"
                  => \A m \in batch[l] :
                        status[m] = StatusPending /\ rowLock[m] = l

C14_ClaimStep ==
    \A l \in Loops :
        /\ CycleStarts(l)
             => /\ batch'[l] \subseteq {m \in Msgs : status[m] = StatusPending}
                /\ status' = status
                /\ (\A m \in Msgs : status[m] # StatusPending)
                      => batch'[l] = {}
        /\ (pc[l] = "tx" /\ pc'[l] = "dispatch")
             => /\ batch[l] # {} /\ batch'[l] = batch[l]
                /\ status' = [m \in Msgs |-> IF m \in batch[l]
                                THEN StatusProcessing ELSE status[m]]
        /\ (pc[l] = "tx" /\ batch[l] = {} /\ pc'[l] = "select")
             => status' = status

C15_CacheOnlyOnDelivered ==
    [][\A m \in Msgs :
          cache'[m] # cache[m]
            => /\ cache'[m] = cache[m] + 1
               /\ \E l \in Loops :
                    LET t == task[l][m]
                        u == task'[l][m]
                    IN /\ Len(u.resps) = Len(t.resps) + 1
                       /\ u.resps[Len(u.resps)] = StatusAccepted
                       /\ u.body = "id"]_vars

C15_Witness ==
    \E lm \in Tasks :
        /\ TaskOf(lm).resps = <<StatusAccepted>>
        /\ TaskOf(lm).body = "id"
        /\ cache[lm[2]] = 1

\* C16: an attempt that got 202 ends its message's attempt loop with one
\* status update and no fallback, whatever store or cache call failed: when
\* the Success write succeeded the status is Success even though the body
\* did not decode or the idempotency record was not written; when the
\* Success write failed the status stays Processing, never Failed; and every
\* task of the same batch still runs to its end.
Delivered(t) == Len(t.resps) > 0 /\ t.resps[Len(t.resps)] = StatusAccepted

C16_DeliveredIsKept ==
    \A lm \in Tasks :
      LET t == TaskOf(lm)
          m == lm[2]
      IN Delivered(t)
           => /\ t.pc = "finished"
              /\ t.updates = 1
              /\ status[m] = IF t.storeFault THEN StatusProcessing
                                             ELSE StatusSuccess
              /\ (t.body = "bad" \/ (t.fault /\ ~t.storeFault))
                    => cache[m] = 0

C16_IOErrorKeepsDelivered ==
    /\ []C16_DeliveredIsKept
    /\ \A l \in Loops, m \in Msgs, k \in Msgs :
         (Delivered(task[l][m]) /\ task[l][m].fault /\ k \in batch[l])
            ~> (task[l][k].pc = "finished")

\* one message of the batch lost its idempotency record and is Success, the
\* other lost its Success write and is Processing; both tasks ended
C16_Witness ==
    \E l \in Loops, m \in Msgs, k \in Msgs :
        /\ {m, k} \subseteq batch[l]
        /\ Delivered(task[l][m]) /\ task[l][m].body = "id"
        /\ task[l][m].fault /\ ~task[l][m].storeFault
        /\ status[m] = StatusSuccess /\ cache[m] = 0
        /\ Delivered(task[l][k]) /\ task[l][k].storeFault
        /\ status[k] = StatusProcessing
        /\ task[l][m].pc = "finished" /\ task[l][k].pc = "finished"

\* C17: an attempt whose response is in no classified range (not 202, not
\* 4xx, not >= 500, no transport failure) issues no status update and counts
\* as a failed attempt: the loop goes on while the budget allows, and once the
\* task has ended (its store calls having succeeded) the message is Failed.
Unclassified(code) ==
    /\ code # TransportErr /\ code # StatusAccepted
    /\ ~ClientError(code) /\ ~Retryable(code)

C17_UnclassifiedCountsAsExhausted ==
    \A lm \in Tasks :
      LET t == TaskOf(lm)
          m == lm[2]
          n == Len(t.resps)
      IN (n > 0 /\ Unclassified(t.resps[n]))
           => /\ n < maxAttempts => t.pc = "attempt"
              /\ t.pc # "finished" => t.updates = 0
              /\ (t.pc = "finished" /\ ~t.storeFault)
                    => status[m] = StatusFailed

\* C18: the attempts of a message are made one at a time, each by the task
\* while it is between attempts; no attempt follows one that got 202 or a
\* 4xx; and a task never makes more attempts than the configured maximum.
C18_AttemptsWithinBudget ==
    \A lm \in Tasks :
      LET t == TaskOf(lm)
      IN /\ Len(t.resps) <= maxAttempts
         /\ \A i \in 1..(Len(t.resps) - 1) :
               t.resps[i] # StatusAccepted /\ ~ClientError(t.resps[i])

C18_OneAttemptAtATime ==
    \A l \in Loops, m \in Msgs :
        task'[l][m].resps # task[l][m].resps
          => \/ task'[l][m] = NoTask
             \/ /\ task[l][m].pc = "attempt"
                /\ Len(task'[l][m].resps) = Len(task[l][m].resps) + 1
                /\ SubSeq(task'[l][m].resps, 1, Len(task[l][m].resps))
                      = task[l][m].resps

C18_OrderedBoundedAttempts ==
    []C18_AttemptsWithinBudget /\ [][C18_OneAttemptAtATime]_vars

\* a task that failed twice and ended on a 202 at its third attempt
C18_Witness ==
    \E lm \in Tasks :
        /\ TaskOf(lm).resps = <<TransportErr, StatusInternalServerError,
                                StatusAccepted>>
        /\ TaskOf(lm).pc = "finished"

\* C19 (as claimed): once Stop has returned, the context of every
\* processBatch still executing is cancelled, so its tasks make no further
\* attempt.
C19_StopCancelsRunningCycle ==
    stopped => \A l \in Loops : InCycle(l) => ctxCancelled[l]

\* C20: no step sets a status back to Pending; a message enters a batch
\* only while it is Pending; and a sendMessage task starts only for a
\* message that the same step takes from Pending to Processing. Hence a
\* message has at most one attempt loop, and a message that ended Failed or
\* was left Processing is never claimed again.
C20_Step ==
    /\ \A m \in Msgs : status[m] # StatusPending => status'[m] # StatusPending
    /\ \A l \in Loops, m \in Msgs :
         /\ (m \in batch'[l] /\ m \notin batch[l]) => status[m] = StatusPending
         /\ (task[l][m].pc = "none" /\ task'[l][m].pc # "none")
               => /\ status[m] = StatusPending
                  /\ status'[m] = StatusProcessing
                  /\ \A k \in Loops : task[k][m].pc = "none"

C21_MutexNeverStuck == []<>(mtx = "free")

\* Stop has returned, the mutex is free, while two scheduler goroutines
\* started by two Start calls are alive and one of them is in a cycle whose
\* task made an attempt
C21_Witness ==
    /\ stopped /\ mtx = "free"
    /\ \A l \in Loops : pc[l] \in Alive
    /\ \E lm \in Tasks : pc[lm[1]] = "dispatch" /\ TaskOf(lm).pc = "attempt"

====
